---- MODULE Spec2Model ----
(***************************************************************************)
(* A model of teragon::ConcurrentParameterSet: the facade that routes      *)
(* parameter changes to a real-time and an async EventDispatcher, the      *)
(* background worker (asyncDispatcherCallback) that serves the async       *)
(* dispatcher, and the constructor/destructor protocol around them.        *)
(* Spec is one set after the other, changed through set() by pointer;     *)
(* ApiSpec is one set called through every overload of set, setScaled and  *)
(* setData, with a BooleanParameter and a data parameter in it; RaceSpec   *)
(* is one set with two producer threads inside set() at the same time.     *)
(* PluginSpec is one teragon::PluginParameterSet with the parameters it    *)
(* owns (add, clear, get, set, its worker and its destructor), translated  *)
(* from PluginParameterSet.h; PluginFairSpec is that set in use with a     *)
(* fairly scheduled worker.  PluginParameter is not among the source       *)
(* files: its safe name is modelled as the name without the characters     *)
(* that are not letters or digits.                                         *)
(*                                                                         *)
(* The set's own code (routing, worker loop, constructor, destructor) is   *)
(* translated from ConcurrentParameterSet.h.  EventDispatcher, Event and   *)
(* EventDispatcherThread are not among the source files; their operations  *)
(* (add, process, wait, notify, kill, isKilled, join) are modelled from    *)
(* the specification and from the doc comments and tests that use them.    *)
(***************************************************************************)
EXTENDS Integers, Sequences, FiniteSets, TLC

\* Number of set() calls made on one ConcurrentParameterSet.
MaxEvents == 2

\* Number of ConcurrentParameterSets constructed one after the other.
MaxSets == 2

\* Number of records scheduled on the set that is called through every
\* overload of its setters, and on one PluginParameterSet.
MaxCalls == 1

NULL == "NULL"

\* The two observers of MultithreadedTest.cpp, registered on every parameter.
Observers == {"realtimeObserver", "asyncObserver"}

\* TestCounterObserver::isRealtimePriority
isRealtimePriority(observer) == observer = "realtimeObserver"

\* The parameters added to the set (BooleanParameter("test") in the tests).
Params == {"test"}

\* The values a BooleanParameter takes.
Values == {0, 1}

\* The data parameters added to the set: a DataParameter that stores its
\* data as BlobParameter does.
DataParams == {"blob"}

\* ParameterSet::parameterList: the parameters in the order they were added.
parameterList == <<"test", "blob">>

\* ParameterSet::size
size == Len(parameterList)

\* A new parameter reads false; BlobParameter's constructor passes 0.0 on as
\* the default value of its Parameter base.
InitialValue == [p \in Params \cup DataParams |-> 0]

\* BlobParameter's constructor with its default arguments: no data, size 0.
\* bytes is what the memory data points to holds.
InitialData ==
    [p \in DataParams |-> [data |-> NULL, bytes |-> <<>>, dataSize |-> 0]]

\* The names setters are called with: those of the parameters and one that
\* was never added.
Names == {"test", "blob", "nope"}

\* The indexes setters are called with (0-based as in the source): the valid
\* ones, one below and one above.
Indexes == (0 - 1) .. size

\* ParameterSet::get(name): the parameter of that name, NULL if there is
\* none.
get(name) ==
    IF \E i \in 1..size : parameterList[i] = name THEN name ELSE NULL

\* The caller's buffer and the bytes it holds.
Buffer == "buffer"
Contents == <<"a", "b">>

\* The (data, dataSize) pairs setData is called with: no buffer, a zero
\* size, and the whole buffer.
DataArgs ==
    {<<NULL, Len(Contents)>>, <<Buffer, 0>>, <<Buffer, Len(Contents)>>}

\* The PluginParameter objects a program hands to PluginParameterSet::add,
\* and the name each was constructed with (a sequence of characters).
Objects == {"o1", "o2", "o3"}
Name ==
    [o \in Objects |->
        CASE o = "o1" -> <<"a", "b">>
          [] o = "o2" -> <<"a", " ", "b">>
          [] o = "o3" -> <<"c">>]

\* The characters PluginParameter::makeSafeName keeps.
SafeChars == {"a", "b", "c"}

\* PluginParameter::makeSafeName: the name without the characters that are
\* not letters or digits.
makeSafeName(name) == SelectSeq(name, LAMBDA ch : ch \in SafeChars)

\* PluginParameter::getName and getSafeName.
getName(o) == Name[o]
getSafeName(o) == makeSafeName(Name[o])

\* An add() call and its return value; no call was made yet.
Added(parameter, result) == [parameter |-> parameter, result |-> result]
NoAdd == Added(NULL, NULL)

\* The names lookups are made with: those of the objects and one more.
LookupNames == {Name[o] : o \in Objects} \cup {<<"d">>}

\* The producer threads of the two-writer scenario and the value each sets.
Producers == {"p1", "p2"}
ProducerValue == [t \in Producers |-> IF t = "p1" THEN 1 ELSE 0]

\* History entry for a setter call that returned, or threw, without
\* scheduling a record; NoCall before the first such call.
Unscheduled(op, why) == [op |-> op, why |-> why]
NoCall == Unscheduled(NULL, NULL)

\* No producer thread has called set(): pc is "idle", then "called" between
\* the entry of set() and the add, then "returned"; overlapped records that
\* another producer was inside set() at the same time.
NotCalled == [t \in Producers |-> [pc |-> "idle", overlapped |-> FALSE]]

\* Threads that can be inside scheduleEvent(): any caller of a setter, and
\* the real-time thread re-dispatching a record from its drain.
Callers == {"producer", "realtime"}

VARIABLES
    gen,          \* which ConcurrentParameterSet (1..MaxSets) the state is of
    life,         \* "alive", "killing", "joining", "destroyed"
    killed,       \* asyncDispatcher's kill flag
    mutex,        \* holder of asyncDispatcher.getMutex(): "free", "worker"
    wpc,          \* position of the worker in asyncDispatcherCallback
    woken,        \* the waiting worker has been signalled
    rtpc,         \* position of the real-time thread: "idle", "drain"
    rtQueue,      \* realtimeDispatcher's queue
    asyncQueue,   \* asyncDispatcher's queue
    rtBatch,      \* records popped by the running real-time drain
    asyncBatch,   \* records popped by the running worker drain
    notifyOwed,   \* per caller: scheduleEvent() calls between add and notify
    value,        \* the stored value of each parameter
    seen,         \* TestCacheValueObserver::value of each observer
    order,        \* history: the set() calls in the order they were made
    appliedLog,   \* history: ids in the order the real-time drain applied them
    appliedAt,    \* history: per entry of appliedLog, the drain's batchStart
    asyncLog,     \* history: ids in the order the worker drain handled them
    obsLog,       \* history: per observer, the ids it was notified of
    notifies,     \* history: number of asyncDispatcher.notify() calls made
    batchStart,   \* history: Len(order) when the current real-time drain began
    data,         \* BlobParameter::data and dataSize of each data parameter
    unscheduled,  \* history: the last setter call that scheduled no record
    inflight,     \* per producer thread: where it is in its set() call
    plist,        \* PluginParameterSet::parameterList
    parameterMap, \* PluginParameterSet::parameterMap: safe name -> parameter
    freed,        \* history: per parameter object, how often it was deleted
    returned      \* history: the last add() call and what it returned

vars == <<gen, life, killed, mutex, wpc, woken, rtpc, rtQueue, asyncQueue,
          rtBatch, asyncBatch, notifyOwed, value, seen, order, appliedLog,
          appliedAt, asyncLog, obsLog, notifies, batchStart, data,
          unscheduled, inflight, plist, parameterMap, freed, returned>>

callVars == <<data, unscheduled, inflight>>
pluginVars == <<plist, parameterMap, freed, returned>>
dispatcherVars == <<killed, mutex, wpc, woken>>
queueVars == <<rtQueue, asyncQueue, notifyOwed>>
historyVars == <<order, appliedLog, appliedAt, asyncLog, obsLog, notifies,
                 batchStart>>

----------------------------------------------------------------------------
(* Construction                                                            *)

\* The state when the constructor returns: both dispatchers built, the worker
\* thread created on asyncDispatcherCallback but not yet run.
Constructed ==
    /\ life = "alive"
    /\ killed = FALSE
    /\ mutex = "free"
    /\ wpc = "start"
    /\ woken = FALSE
    /\ rtpc = "idle"
    /\ rtQueue = <<>>
    /\ asyncQueue = <<>>
    /\ rtBatch = <<>>
    /\ asyncBatch = <<>>
    /\ notifyOwed = [t \in Callers |-> 0]
    /\ value = InitialValue
    /\ seen = [o \in Observers |-> 0]
    /\ order = <<>>
    /\ appliedLog = <<>>
    /\ appliedAt = <<>>
    /\ asyncLog = <<>>
    /\ obsLog = [o \in Observers |-> <<>>]
    /\ notifies = 0
    /\ batchStart = 0
    /\ data = InitialData
    /\ unscheduled = NoCall
    /\ inflight = NotCalled
    /\ plist = <<>>
    /\ parameterMap = <<>>
    /\ freed = [o \in Objects |-> 0]
    /\ returned = NoAdd

Init == gen = 1 /\ Constructed

----------------------------------------------------------------------------
(* EventDispatcher                                                         *)

\* new Event(parameter, value, isRealtime, sender); id stands for the
\* identity of the heap object.
Event(parameter, v, realtime, sender) ==
    [id |-> Len(order) + 1, kind |-> "Event", parameter |-> parameter,
     value |-> v, isRealtime |-> realtime, sender |-> sender]

\* new ScaledEvent(parameter, value, isRealtime, sender)
ScaledEvent(parameter, v, realtime, sender) ==
    [id |-> Len(order) + 1, kind |-> "ScaledEvent", parameter |-> parameter,
     value |-> v, isRealtime |-> realtime, sender |-> sender]

\* new DataEvent(parameter, data, dataSize, isRealtime, sender)
DataEvent(parameter, inData, inDataSize, realtime, sender) ==
    [id |-> Len(order) + 1, kind |-> "DataEvent", parameter |-> parameter,
     data |-> inData, dataSize |-> inDataSize, isRealtime |-> realtime,
     sender |-> sender]

\* BlobParameter::setValue(inData, inDataSize) on the stored blob: nothing
\* without a buffer or a size, else newly allocated memory holding a copy of
\* the first inDataSize bytes.
setValue(blob, inData, inDataSize) ==
    IF inData = NULL \/ inDataSize = 0
    THEN blob
    ELSE [data |-> "malloc", bytes |-> SubSeq(Contents, 1, inDataSize),
          dataSize |-> inDataSize]

\* The parameter values after a record's apply(): Event stores the value,
\* ScaledEvent goes through setScaledValue (which BlobParameter leaves
\* empty), DataEvent does not touch the value.
ApplyValue(event) ==
    CASE event.kind = "Event" ->
             [value EXCEPT ![event.parameter] = event.value]
      [] event.kind = "ScaledEvent" ->
             IF event.parameter \in DataParams
             THEN value
             ELSE [value EXCEPT ![event.parameter] = event.value]
      [] event.kind = "DataEvent" -> value

\* The stored blobs after a record's apply(): only a DataEvent calls
\* BlobParameter::setValue.
ApplyData(event) ==
    IF event.kind = "DataEvent"
    THEN [data EXCEPT ![event.parameter] =
              setValue(@, event.data, event.dataSize)]
    ELSE data

\* EventDispatcher::notify: wakes the thread blocked in wait(), if there is
\* one; a signal sent while nobody waits is not remembered.
Notify == woken' = (woken \/ wpc = "waiting")

\* EventDispatcher::kill: under the dispatcher's mutex, set the flag and
\* wake the waiter.
Kill ==
    /\ mutex = "free"
    /\ killed' = TRUE
    /\ Notify
    /\ UNCHANGED <<mutex, wpc>>

\* The observers EventDispatcher::process notifies for a record: those of
\* the dispatcher's own priority, except the record's sender.
Notified(event, realtime) ==
    {o \in Observers : isRealtimePriority(o) = realtime /\ o # event.sender}

----------------------------------------------------------------------------
(* ConcurrentParameterSet::scheduleEvent                                   *)

\* scheduleEvent() whose async branch signals without adding the record.
ScheduleEventNoAdd(t, event) ==
    IF event.isRealtime
    THEN /\ rtQueue' = Append(rtQueue, event)
         /\ UNCHANGED <<asyncQueue, notifyOwed>>
    ELSE /\ notifyOwed' = [notifyOwed EXCEPT ![t] = @ + 1]
         /\ UNCHANGED <<rtQueue, asyncQueue>>

\* scheduleEvent() without its else: a real-time record also falls through
\* to the async add and notify.
ScheduleEventBoth(t, event) ==
    /\ rtQueue' = IF event.isRealtime THEN Append(rtQueue, event) ELSE rtQueue
    /\ asyncQueue' = Append(asyncQueue, event)
    /\ notifyOwed' = [notifyOwed EXCEPT ![t] = @ + 1]

\* scheduleEvent() with the test of the flag inverted.
ScheduleEventInverted(t, event) ==
    IF ~event.isRealtime
    THEN /\ rtQueue' = Append(rtQueue, event)
         /\ UNCHANGED <<asyncQueue, notifyOwed>>
    ELSE /\ asyncQueue' = Append(asyncQueue, event)
         /\ notifyOwed' = [notifyOwed EXCEPT ![t] = @ + 1]
         /\ UNCHANGED rtQueue

\* scheduleEvent() whose add replaces what the queue holds.
ScheduleEventOverwrite(t, event) ==
    IF event.isRealtime
    THEN /\ rtQueue' = <<event>>
         /\ UNCHANGED <<asyncQueue, notifyOwed>>
    ELSE /\ asyncQueue' = <<event>>
         /\ notifyOwed' = [notifyOwed EXCEPT ![t] = @ + 1]
         /\ UNCHANGED rtQueue

\* scheduleEvent() that takes the async dispatcher's mutex for its add.
ScheduleEventLocked(t, event) ==
    /\ mutex = "free"
    /\ IF event.isRealtime
       THEN /\ rtQueue' = Append(rtQueue, event)
            /\ UNCHANGED <<asyncQueue, notifyOwed>>
       ELSE /\ asyncQueue' = Append(asyncQueue, event)
            /\ notifyOwed' = [notifyOwed EXCEPT ![t] = @ + 1]
            /\ UNCHANGED rtQueue

\* Lines 298-302: the record goes to the queue its flag selects; line 303
\* (notify) is the separate step ScheduleNotify of the same caller.
ScheduleEvent(t, event) ==
    IF event.isRealtime
    THEN /\ rtQueue' = Append(rtQueue, event)
         /\ UNCHANGED <<asyncQueue, notifyOwed>>
    ELSE /\ asyncQueue' = Append(asyncQueue, event)
         /\ notifyOwed' = [notifyOwed EXCEPT ![t] = @ + 1]
         /\ UNCHANGED rtQueue

\* Line 303: asyncDispatcher.notify(), after the add.
ScheduleNotify(t) ==
    /\ life = "alive"
    /\ notifyOwed[t] > 0
    /\ notifyOwed' = [notifyOwed EXCEPT ![t] = @ - 1]
    /\ Notify
    /\ notifies' = notifies + 1
    /\ UNCHANGED <<pluginVars, callVars, gen, life, killed, mutex, wpc, rtpc,
                   rtQueue, asyncQueue, rtBatch, asyncBatch, value, seen,
                   order, appliedLog, appliedAt, asyncLog, obsLog,
                   batchStart>>

----------------------------------------------------------------------------
(* The setters                                                             *)

\* History entry for one call set(parameter, value, sender).
Call(parameter, v, sender) ==
    [op |-> "set", parameter |-> parameter, value |-> v, sender |-> sender]

\* set() that builds its record without the real-time flag.
SetAsync(parameter, v, sender) ==
    /\ life = "alive"
    /\ Len(order) < MaxEvents
    /\ ScheduleEvent("producer", Event(parameter, v, FALSE, sender))
    /\ order' = Append(order, Call(parameter, v, sender))
    /\ UNCHANGED <<pluginVars, callVars, gen, life, dispatcherVars, rtpc,
                   rtBatch, asyncBatch, value, seen, appliedLog, appliedAt,
                   asyncLog, obsLog, notifies, batchStart>>

\* set() that builds its record without passing the sender on.
SetNoSender(parameter, v, sender) ==
    /\ life = "alive"
    /\ Len(order) < MaxEvents
    /\ ScheduleEvent("producer", Event(parameter, v, TRUE, NULL))
    /\ order' = Append(order, Call(parameter, v, sender))
    /\ UNCHANGED <<pluginVars, callVars, gen, life, dispatcherVars, rtpc,
                   rtBatch, asyncBatch, value, seen, appliedLog, appliedAt,
                   asyncLog, obsLog, notifies, batchStart>>

\* set(Parameter *, value, sender): a real-time-flagged record is scheduled.
Set(parameter, v, sender) ==
    /\ life = "alive"
    /\ Len(order) < MaxEvents
    /\ ScheduleEvent("producer", Event(parameter, v, TRUE, sender))
    /\ order' = Append(order, Call(parameter, v, sender))
    /\ UNCHANGED <<pluginVars, callVars, gen, life, dispatcherVars, rtpc,
                   rtBatch, asyncBatch, value, seen, appliedLog, appliedAt,
                   asyncLog, obsLog, notifies, batchStart>>

\* A producer thread enters set(Parameter *, value, sender) and builds its
\* record; nothing the other threads can see changes.
SetEnter(t) ==
    /\ life = "alive"
    /\ inflight[t].pc = "idle"
    /\ LET others == {u \in Producers : u # t /\ inflight[u].pc = "called"}
       IN  inflight' = [u \in Producers |->
                          IF u = t
                          THEN [pc |-> "called", overlapped |-> others # {}]
                          ELSE IF u \in others
                               THEN [inflight[u] EXCEPT !.overlapped = TRUE]
                               ELSE inflight[u]]
    /\ UNCHANGED <<pluginVars, gen, life, dispatcherVars, rtpc, queueVars,
                   rtBatch, asyncBatch, value, seen, historyVars, data,
                   unscheduled>>

\* set() that also stores the value itself, as Parameter::set does, before
\* it schedules the record.
SetScheduleDirect(t) ==
    /\ life = "alive"
    /\ inflight[t].pc = "called"
    /\ value' = [value EXCEPT !["test"] = ProducerValue[t]]
    /\ ScheduleEvent("producer", Event("test", ProducerValue[t], TRUE, NULL))
    /\ order' = Append(order, Call("test", ProducerValue[t], NULL))
    /\ inflight' = [inflight EXCEPT ![t].pc = "returned"]
    /\ UNCHANGED <<pluginVars, gen, life, dispatcherVars, rtpc, rtBatch,
                   asyncBatch, seen, appliedLog, appliedAt, asyncLog, obsLog,
                   notifies, batchStart, data, unscheduled>>

\* Line 170 in that thread: scheduleEvent(new Event(...)), and set()
\* returns.
SetSchedule(t) ==
    /\ life = "alive"
    /\ inflight[t].pc = "called"
    /\ ScheduleEvent("producer", Event("test", ProducerValue[t], TRUE, NULL))
    /\ order' = Append(order, Call("test", ProducerValue[t], NULL))
    /\ inflight' = [inflight EXCEPT ![t].pc = "returned"]
    /\ UNCHANGED <<pluginVars, gen, life, dispatcherVars, rtpc, rtBatch,
                   asyncBatch, value, seen, appliedLog, appliedAt, asyncLog,
                   obsLog, notifies, batchStart, data, unscheduled>>

\* A setter call that schedules nothing.
Drop(op, why) ==
    /\ life = "alive"
    /\ unscheduled' = Unscheduled(op, why)
    /\ UNCHANGED <<pluginVars, gen, life, dispatcherVars, rtpc, queueVars,
                   rtBatch, asyncBatch, value, seen, historyVars, data,
                   inflight>>

\* parameterList.at(index) with a 0-based index inside the list.
at(index) == parameterList[index + 1]

\* set(name, ...) that passes what get(name) returned on without testing it.
SetNameNoTest(name, v, sender) == Set(get(name), v, sender)

\* set(name, value, sender): lines 127-133.
SetName(name, v, sender) ==
    IF get(name) # NULL
    THEN Set(get(name), v, sender)
    ELSE Drop("set", "get(name) = NULL")

\* set(index, value, sender): lines 149-152; at() throws for an index
\* outside the list.
SetIndex(index, v, sender) ==
    IF index \in 0..(size - 1)
    THEN Set(at(index), v, sender)
    ELSE Drop("set", "out_of_range")

\* History entry for one call setScaled(parameter, value, sender).
ScaledCall(parameter, v, sender) ==
    [op |-> "setScaled", parameter |-> parameter, value |-> v,
     sender |-> sender]

\* setScaled() that builds its record without the real-time flag.
SetScaledAsync(parameter, v, sender) ==
    /\ life = "alive"
    /\ Len(order) < MaxEvents
    /\ ScheduleEvent("producer", ScaledEvent(parameter, v, FALSE, sender))
    /\ order' = Append(order, ScaledCall(parameter, v, sender))
    /\ UNCHANGED <<pluginVars, callVars, gen, life, dispatcherVars, rtpc,
                   rtBatch, asyncBatch, value, seen, appliedLog, appliedAt,
                   asyncLog, obsLog, notifies, batchStart>>

\* setScaled(Parameter *, value, sender): lines 228-231.
SetScaled(parameter, v, sender) ==
    /\ life = "alive"
    /\ Len(order) < MaxEvents
    /\ ScheduleEvent("producer", ScaledEvent(parameter, v, TRUE, sender))
    /\ order' = Append(order, ScaledCall(parameter, v, sender))
    /\ UNCHANGED <<pluginVars, callVars, gen, life, dispatcherVars, rtpc,
                   rtBatch, asyncBatch, value, seen, appliedLog, appliedAt,
                   asyncLog, obsLog, notifies, batchStart>>

\* setScaled(name, value, sender): lines 187-193.
SetScaledName(name, v, sender) ==
    IF get(name) # NULL
    THEN SetScaled(get(name), v, sender)
    ELSE Drop("setScaled", "get(name) = NULL")

\* setScaled(index, value, sender): lines 209-212.
SetScaledIndex(index, v, sender) ==
    IF index \in 0..(size - 1)
    THEN SetScaled(at(index), v, sender)
    ELSE Drop("setScaled", "out_of_range")

\* History entry for one call setData(parameter, data, dataSize, sender).
DataCall(parameter, inData, inDataSize, sender) ==
    [op |-> "setData", parameter |-> parameter, data |-> inData,
     dataSize |-> inDataSize, sender |-> sender]

\* setData() that schedules its record without the dynamic_cast test.
SetDataNoCast(parameter, inData, inDataSize, sender) ==
    /\ life = "alive"
    /\ Len(order) < MaxEvents
    /\ ScheduleEvent("producer",
                     DataEvent(parameter, inData, inDataSize, TRUE, sender))
    /\ order' = Append(order, DataCall(parameter, inData, inDataSize, sender))
    /\ UNCHANGED <<pluginVars, callVars, gen, life, dispatcherVars, rtpc,
                   rtBatch, asyncBatch, value, seen, appliedLog, appliedAt,
                   asyncLog, obsLog, notifies, batchStart>>

\* setData(Parameter *, data, dataSize, sender): lines 288-294.  The
\* dynamic_cast yields NULL for NULL and for a parameter that is not a
\* DataParameter.
SetData(parameter, inData, inDataSize, sender) ==
    IF parameter \in DataParams
    THEN /\ life = "alive"
         /\ Len(order) < MaxEvents
         /\ ScheduleEvent("producer",
                          DataEvent(parameter, inData, inDataSize, TRUE,
                                    sender))
         /\ order' = Append(order,
                            DataCall(parameter, inData, inDataSize, sender))
         /\ UNCHANGED <<pluginVars, callVars, gen, life, dispatcherVars, rtpc,
                        rtBatch, asyncBatch, value, seen, appliedLog,
                        appliedAt, asyncLog, obsLog, notifies, batchStart>>
    ELSE Drop("setData", "dynamic_cast = NULL")

\* setData(name, data, dataSize, sender): lines 247-253.
SetDataName(name, inData, inDataSize, sender) ==
    IF get(name) # NULL
    THEN SetData(get(name), inData, inDataSize, sender)
    ELSE Drop("setData", "get(name) = NULL")

\* setData(index, data, dataSize, sender): lines 269-272.
SetDataIndex(index, inData, inDataSize, sender) ==
    IF index \in 0..(size - 1)
    THEN SetData(at(index), inData, inDataSize, sender)
    ELSE Drop("setData", "out_of_range")

----------------------------------------------------------------------------
(* The real-time thread                                                    *)

\* processRealtimeEvents() that returns without draining realtimeDispatcher.
ProcessRealtimeEventsSkip ==
    /\ life = "alive"
    /\ rtpc = "idle"
    /\ rtpc' = "drain"
    /\ batchStart' = Len(order)
    /\ UNCHANGED <<pluginVars, callVars, gen, life, dispatcherVars, queueVars,
                   rtBatch, asyncBatch, value, seen, order, appliedLog,
                   appliedAt, asyncLog, obsLog, notifies>>

\* processRealtimeEvents() that waits, as the worker does, until the
\* real-time queue holds a record.
ProcessRealtimeEventsWaiting ==
    /\ life = "alive"
    /\ rtpc = "idle"
    /\ rtQueue # <<>>
    /\ rtpc' = "drain"
    /\ rtBatch' = rtQueue
    /\ rtQueue' = <<>>
    /\ batchStart' = Len(order)
    /\ UNCHANGED <<pluginVars, callVars, gen, life, dispatcherVars,
                   asyncQueue, asyncBatch, notifyOwed, value, seen, order,
                   appliedLog, appliedAt, asyncLog, obsLog, notifies>>

\* processRealtimeEvents() calls realtimeDispatcher.process(), which first
\* takes the queue's whole contents.
ProcessRealtimeEvents ==
    /\ life = "alive"
    /\ rtpc = "idle"
    /\ rtpc' = "drain"
    /\ rtBatch' = rtQueue
    /\ rtQueue' = <<>>
    /\ batchStart' = Len(order)
    /\ UNCHANGED <<pluginVars, callVars, gen, life, dispatcherVars,
                   asyncQueue, asyncBatch, notifyOwed, value, seen, order,
                   appliedLog, appliedAt, asyncLog, obsLog, notifies>>

\* process() on the real-time dispatcher, one record: apply the value,
\* notify the real-time observers, hand the record to scheduleEvent() with
\* its flag cleared.
RealtimeApply ==
    /\ rtpc = "drain"
    /\ rtBatch # <<>>
    /\ notifyOwed["realtime"] = 0
    /\ Head(rtBatch).parameter # NULL
    /\ LET event == Head(rtBatch)
           told == Notified(event, TRUE)
       IN  /\ value' = ApplyValue(event)
           /\ data' = ApplyData(event)
           /\ seen' = [o \in Observers |->
                          IF o \in told
                          THEN ApplyValue(event)[event.parameter]
                          ELSE seen[o]]
           /\ obsLog' = [o \in Observers |->
                          IF o \in told THEN Append(obsLog[o], event.id)
                                        ELSE obsLog[o]]
           /\ appliedLog' = Append(appliedLog, event.id)
           /\ appliedAt' = Append(appliedAt, batchStart)
           /\ ScheduleEvent("realtime", [event EXCEPT !.isRealtime = FALSE])
    /\ rtBatch' = Tail(rtBatch)
    /\ UNCHANGED <<pluginVars, unscheduled, inflight, gen, life,
                   dispatcherVars, rtpc, asyncBatch, order, asyncLog,
                   notifies, batchStart>>

\* process() on the real-time dispatcher reaches a record whose parameter
\* is NULL: apply() calls a member of a null pointer.  Either the process
\* ends there, or the call does nothing and the drain goes on.
RealtimeApplyNull ==
    /\ rtpc = "drain"
    /\ rtBatch # <<>>
    /\ notifyOwed["realtime"] = 0
    /\ Head(rtBatch).parameter = NULL
    /\ \/ life' = "crashed" /\ rtpc' = "crashed" /\ rtBatch' = rtBatch
       \/ life' = life /\ rtpc' = rtpc /\ rtBatch' = Tail(rtBatch)
    /\ UNCHANGED <<pluginVars, callVars, gen, dispatcherVars, queueVars,
                   asyncBatch, value, seen, historyVars>>

\* process() that looks at the queue again when it has handled the records
\* it took, and goes on until it finds the queue empty.
RealtimeReturnWhenEmpty ==
    /\ rtpc = "drain"
    /\ rtBatch = <<>>
    /\ notifyOwed["realtime"] = 0
    /\ rtpc' = IF rtQueue = <<>> THEN "idle" ELSE "drain"
    /\ rtBatch' = rtQueue
    /\ rtQueue' = <<>>
    /\ UNCHANGED <<pluginVars, callVars, gen, life, dispatcherVars,
                   asyncQueue, notifyOwed, asyncBatch, value, seen,
                   historyVars>>

\* process() has handled every record it took: processRealtimeEvents()
\* returns.
RealtimeReturn ==
    /\ rtpc = "drain"
    /\ rtBatch = <<>>
    /\ notifyOwed["realtime"] = 0
    /\ rtpc' = "idle"
    /\ UNCHANGED <<pluginVars, callVars, gen, life, dispatcherVars, queueVars,
                   rtBatch, asyncBatch, value, seen, historyVars>>

----------------------------------------------------------------------------
(* The background worker: asyncDispatcherCallback                          *)

\* asyncDispatcherCallback without the lock guard of line 42.
WorkerLockNone ==
    /\ wpc = "start"
    /\ wpc' = "loop"
    /\ UNCHANGED <<pluginVars, callVars, gen, life, killed, mutex, woken,
                   rtpc, queueVars, rtBatch, asyncBatch, value, seen,
                   historyVars>>

\* Line 42: the lock guard takes the dispatcher's mutex.
WorkerLock ==
    /\ wpc = "start"
    /\ mutex = "free"
    /\ mutex' = "worker"
    /\ wpc' = "loop"
    /\ UNCHANGED <<pluginVars, callVars, gen, life, killed, woken, rtpc,
                   queueVars, rtBatch, asyncBatch, value, seen, historyVars>>

\* Line 43: while(!dispatcher->isKilled()); leaving the loop returns from
\* the thread function and releases the guard.
WorkerLoop ==
    /\ wpc = "loop"
    /\ IF killed
       THEN wpc' = "done" /\ mutex' = "free"
       ELSE wpc' = "wait" /\ mutex' = mutex
    /\ UNCHANGED <<pluginVars, callVars, gen, life, killed, woken, rtpc,
                   queueVars, rtBatch, asyncBatch, value, seen, historyVars>>

\* Line 44: wait() releases the mutex and blocks.
WorkerWait ==
    /\ wpc = "wait"
    /\ wpc' = "waiting"
    /\ mutex' = "free"
    /\ woken' = FALSE
    /\ UNCHANGED <<pluginVars, callVars, gen, life, killed, rtpc, queueVars,
                   rtBatch, asyncBatch, value, seen, historyVars>>

\* A condition variable may wake its waiter without a signal.
SpuriousWake ==
    /\ wpc = "waiting"
    /\ ~woken
    /\ woken' = TRUE
    /\ UNCHANGED <<pluginVars, callVars, gen, life, killed, mutex, wpc, rtpc,
                   queueVars, rtBatch, asyncBatch, value, seen, historyVars>>

\* Line 44: the signalled worker takes the mutex again and wait() returns.
WorkerWake ==
    /\ wpc = "waiting"
    /\ woken
    /\ mutex = "free"
    /\ mutex' = "worker"
    /\ woken' = FALSE
    /\ wpc' = "check"
    /\ UNCHANGED <<pluginVars, callVars, gen, life, killed, rtpc, queueVars,
                   rtBatch, asyncBatch, value, seen, historyVars>>

\* asyncDispatcherCallback without the test of line 48: process() is
\* called after every wake-up.
WorkerCheckNone ==
    /\ wpc = "check"
    /\ wpc' = "process"
    /\ UNCHANGED <<pluginVars, callVars, gen, life, killed, mutex, woken,
                   rtpc, queueVars, rtBatch, asyncBatch, value, seen,
                   historyVars>>

\* Line 48: if(!dispatcher->isKilled()) process, else back to the loop test.
WorkerCheck ==
    /\ wpc = "check"
    /\ wpc' = IF killed THEN "loop" ELSE "process"
    /\ UNCHANGED <<pluginVars, callVars, gen, life, killed, mutex, woken,
                   rtpc, queueVars, rtBatch, asyncBatch, value, seen,
                   historyVars>>

\* Line 49: process() on the async dispatcher takes the queue's contents.
WorkerProcess ==
    /\ wpc = "process"
    /\ wpc' = "drain"
    /\ asyncBatch' = asyncQueue
    /\ asyncQueue' = <<>>
    /\ UNCHANGED <<pluginVars, callVars, gen, life, killed, mutex, woken,
                   rtpc, rtQueue, notifyOwed, rtBatch, value, seen,
                   historyVars>>

\* process() on the async dispatcher, one record: notify the async
\* observers (the value was applied by the real-time drain) and delete it.
WorkerNotify ==
    /\ wpc = "drain"
    /\ asyncBatch # <<>>
    /\ LET event == Head(asyncBatch)
           told == Notified(event, FALSE)
       IN  /\ seen' = [o \in Observers |->
                          IF o \in told THEN value[event.parameter]
                                        ELSE seen[o]]
           /\ obsLog' = [o \in Observers |->
                          IF o \in told THEN Append(obsLog[o], event.id)
                                        ELSE obsLog[o]]
           /\ asyncLog' = Append(asyncLog, event.id)
    /\ asyncBatch' = Tail(asyncBatch)
    /\ UNCHANGED <<pluginVars, callVars, gen, life, dispatcherVars, rtpc,
                   queueVars, rtBatch, value, order, appliedLog, appliedAt,
                   notifies, batchStart>>

\* process() returns: back to the loop test of line 43.
WorkerProcessDone ==
    /\ wpc = "drain"
    /\ asyncBatch = <<>>
    /\ wpc' = "loop"
    /\ UNCHANGED <<pluginVars, callVars, gen, life, killed, mutex, woken,
                   rtpc, queueVars, rtBatch, asyncBatch, value, seen,
                   historyVars>>

\* The steps the worker takes on its own.
Worker ==
    \/ WorkerLock
    \/ WorkerLoop
    \/ WorkerWait
    \/ WorkerWake
    \/ WorkerCheck
    \/ WorkerProcess
    \/ WorkerNotify
    \/ WorkerProcessDone

----------------------------------------------------------------------------
(* Destruction and the next set                                            *)

\* EventDispatcherThread::join: returns once the thread function has
\* returned.
Joined == wpc = "done"

\* ~ConcurrentParameterSet is entered: no other call is running on the set.
DestructorEnter ==
    /\ life = "alive"
    /\ rtpc = "idle"
    /\ \A t \in Callers : notifyOwed[t] = 0
    /\ life' = "killing"
    /\ UNCHANGED <<pluginVars, callVars, gen, dispatcherVars, rtpc, queueVars,
                   rtBatch, asyncBatch, value, seen, historyVars>>

\* Line 101: asyncDispatcher.kill().
DestructorKill ==
    /\ life = "killing"
    /\ Kill
    /\ life' = "joining"
    /\ UNCHANGED <<pluginVars, callVars, gen, rtpc, queueVars, rtBatch,
                   asyncBatch, value, seen, historyVars>>

\* A destructor that does not join the worker before the members go.
DestructorNoJoin ==
    /\ life = "joining"
    /\ life' = "destroyed"
    /\ rtQueue' = <<>>
    /\ asyncQueue' = <<>>
    /\ UNCHANGED <<pluginVars, callVars, gen, dispatcherVars, rtpc,
                   notifyOwed, rtBatch, asyncBatch, value, seen, historyVars>>

\* Lines 102-103: asyncDispatcherThread.join(), then the members (thread,
\* dispatchers and their queues) are destroyed.
DestructorJoin ==
    /\ life = "joining"
    /\ Joined
    /\ life' = "destroyed"
    /\ rtQueue' = <<>>
    /\ asyncQueue' = <<>>
    /\ UNCHANGED <<pluginVars, callVars, gen, dispatcherVars, rtpc,
                   notifyOwed, rtBatch, asyncBatch, value, seen, historyVars>>

\* new ConcurrentParameterSet() right after the delete of the previous one.
Construct ==
    /\ life = "destroyed"
    /\ gen < MaxSets
    /\ gen' = gen + 1
    /\ life' = "alive"
    /\ killed' = FALSE
    /\ mutex' = "free"
    /\ wpc' = "start"
    /\ woken' = FALSE
    /\ rtpc' = "idle"
    /\ rtQueue' = <<>>
    /\ asyncQueue' = <<>>
    /\ rtBatch' = <<>>
    /\ asyncBatch' = <<>>
    /\ notifyOwed' = [t \in Callers |-> 0]
    /\ value' = InitialValue
    /\ seen' = [o \in Observers |-> 0]
    /\ order' = <<>>
    /\ appliedLog' = <<>>
    /\ appliedAt' = <<>>
    /\ asyncLog' = <<>>
    /\ obsLog' = [o \in Observers |-> <<>>]
    /\ notifies' = 0
    /\ batchStart' = 0
    /\ data' = InitialData
    /\ unscheduled' = NoCall
    /\ inflight' = NotCalled
    /\ plist' = <<>>
    /\ parameterMap' = <<>>
    /\ freed' = [o \in Objects |-> 0]
    /\ returned' = NoAdd

----------------------------------------------------------------------------

\* The steps of one ConcurrentParameterSet, from its construction to the
\* return of its destructor.
SetNext ==
    \/ \E p \in Params, v \in Values, s \in Observers \cup {NULL} : Set(p, v, s)
    \/ \E t \in Callers : ScheduleNotify(t)
    \/ ProcessRealtimeEvents
    \/ RealtimeApply
    \/ RealtimeReturn
    \/ Worker
    \/ SpuriousWake
    \/ DestructorEnter
    \/ DestructorKill
    \/ DestructorJoin

Next ==
    \/ SetNext
    \/ Construct

Spec == Init /\ [][Next]_vars

\* One ConcurrentParameterSet under the scheduling its threads get: the
\* worker, the real-time thread inside a drain and a caller inside
\* scheduleEvent() keep running; kill() gets the mutex if it is free again
\* and again; join() returns when it can.  Whether a setter, a drain or the
\* destructor is called at all is up to the program that uses the set.
FairSpec ==
    /\ Init
    /\ [][SetNext]_vars
    /\ WF_vars(Worker)
    /\ WF_vars(RealtimeApply)
    /\ WF_vars(RealtimeReturn)
    /\ \A t \in Callers : WF_vars(ScheduleNotify(t))
    /\ SF_vars(DestructorKill)
    /\ WF_vars(DestructorJoin)

\* What a setter is handed as its Parameter pointer.
Targets == Params \cup DataParams \cup {NULL}

\* A setter may be called: fewer than MaxCalls records were scheduled.
CallAllowed == Len(order) < MaxCalls

\* The worker runs as long as the process does.
WorkerRuns == life # "crashed" /\ (Worker \/ SpuriousWake)

\* The steps of one ConcurrentParameterSet that is used through every
\* overload of set, setScaled and setData, up to the end of the process.
ApiNext ==
    \/ CallAllowed /\ \E p \in Targets, v \in Values : Set(p, v, NULL)
    \/ CallAllowed /\ \E n \in Names, v \in Values : SetName(n, v, NULL)
    \/ CallAllowed /\ \E i \in Indexes, v \in Values : SetIndex(i, v, NULL)
    \/ CallAllowed /\ \E p \in Targets, v \in Values : SetScaled(p, v, NULL)
    \/ CallAllowed /\ \E n \in Names, v \in Values :
                          SetScaledName(n, v, NULL)
    \/ CallAllowed /\ \E i \in Indexes, v \in Values :
                          SetScaledIndex(i, v, NULL)
    \/ CallAllowed /\ \E p \in Targets, d \in DataArgs :
                          SetData(p, d[1], d[2], NULL)
    \/ CallAllowed /\ \E n \in Names, d \in DataArgs :
                          SetDataName(n, d[1], d[2], NULL)
    \/ CallAllowed /\ \E i \in Indexes, d \in DataArgs :
                          SetDataIndex(i, d[1], d[2], NULL)
    \/ \E t \in Callers : ScheduleNotify(t)
    \/ ProcessRealtimeEvents
    \/ RealtimeApply
    \/ RealtimeApplyNull
    \/ RealtimeReturn
    \/ WorkerRuns

ApiSpec == Init /\ [][ApiNext]_vars

\* The steps of one ConcurrentParameterSet on which two producer threads
\* call set() on the same parameter without synchronization.
RaceNext ==
    \/ \E t \in Producers : SetEnter(t)
    \/ \E t \in Producers : SetSchedule(t)
    \/ \E t \in Callers : ScheduleNotify(t)
    \/ ProcessRealtimeEvents
    \/ RealtimeApply
    \/ RealtimeReturn
    \/ Worker
    \/ SpuriousWake

RaceSpec == Init /\ [][RaceNext]_vars

----------------------------------------------------------------------------
(* PluginParameterSet                                                      *)

\* std::map::insert(std::make_pair(key, o)): a key that is already in the
\* map keeps its entry.
insert(map, key, o) ==
    IF key \in DOMAIN map
    THEN map
    ELSE [k \in DOMAIN map \cup {key} |-> IF k = key THEN o ELSE map[k]]

\* PluginParameterSet::get(name), lines 137-140: the map's entry for the
\* safe form of the name, or NULL.
PluginGet(name) ==
    IF makeSafeName(name) \in DOMAIN parameterMap
    THEN parameterMap[makeSafeName(name)]
    ELSE NULL

\* PluginParameterSet::size(), line 97.
PluginSize == Len(plist)

\* PluginParameterSet::get(index), line 123, for an index inside the list.
PluginAt(index) == plist[index + 1]

\* add() without the test of line 86: every parameter is inserted.
AddNoTest(parameter) ==
    /\ life = "alive"
    /\ parameter # NULL
    /\ freed[parameter] = 0
    /\ parameterMap' = insert(parameterMap, getSafeName(parameter), parameter)
    /\ plist' = Append(plist, parameter)
    /\ returned' = Added(parameter, parameter)
    /\ UNCHANGED <<freed, callVars, gen, life, dispatcherVars, rtpc,
                   queueVars, rtBatch, asyncBatch, value, seen, historyVars>>

\* PluginParameterSet::add(parameter), lines 85-92, called with NULL or
\* with a parameter that has not been deleted.
Add(parameter) ==
    /\ life = "alive"
    /\ parameter # NULL => freed[parameter] = 0
    /\ IF parameter = NULL \/ PluginGet(getName(parameter)) # NULL
       THEN /\ returned' = Added(parameter, NULL)
            /\ UNCHANGED <<plist, parameterMap>>
       ELSE /\ parameterMap' =
                   insert(parameterMap, getSafeName(parameter), parameter)
            /\ plist' = Append(plist, parameter)
            /\ returned' = Added(parameter, parameter)
    /\ UNCHANGED <<freed, callVars, gen, life, dispatcherVars, rtpc,
                   queueVars, rtBatch, asyncBatch, value, seen, historyVars>>

\* The deletes counted after delete was called on every entry of list.
Deleted(list) ==
    [o \in Objects |->
        freed[o] + Cardinality({i \in DOMAIN list : list[i] = o})]

\* clear() that empties the list and leaves the map as it is.
ClearListOnly ==
    /\ life = "alive"
    /\ freed' = Deleted(plist)
    /\ plist' = <<>>
    /\ UNCHANGED <<parameterMap, returned, callVars, gen, life,
                   dispatcherVars, rtpc, queueVars, rtBatch, asyncBatch,
                   value, seen, historyVars>>

\* PluginParameterSet::clear(), lines 100-106: delete every parameter of
\* the list, then empty the list and the map.
Clear ==
    /\ life = "alive"
    /\ freed' = Deleted(plist)
    /\ plist' = <<>>
    /\ parameterMap' = <<>>
    /\ UNCHANGED <<returned, callVars, gen, life, dispatcherVars, rtpc,
                   queueVars, rtBatch, asyncBatch, value, seen, historyVars>>

\* PluginParameterSet::scheduleEvent, lines 162-169: the record goes to the
\* dispatcher its flag names; no dispatcher is signalled.
PluginScheduleEvent(event) ==
    IF event.isRealtime
    THEN rtQueue' = Append(rtQueue, event) /\ UNCHANGED asyncQueue
    ELSE asyncQueue' = Append(asyncQueue, event) /\ UNCHANGED rtQueue

\* PluginParameterSet::set(parameter, value, realtime, sender), lines
\* 157-159, on a parameter that has not been deleted.
PluginSet(parameter, v, realtime, sender) ==
    /\ life = "alive"
    /\ Len(order) < MaxCalls
    /\ freed[parameter] = 0
    /\ PluginScheduleEvent(Event(parameter, v, realtime, sender))
    /\ order' = Append(order, Call(parameter, v, sender))
    /\ UNCHANGED <<pluginVars, callVars, gen, life, dispatcherVars, rtpc,
                   notifyOwed, rtBatch, asyncBatch, value, seen, appliedLog,
                   appliedAt, asyncLog, obsLog, notifies, batchStart>>

\* PluginParameterSet::set(name, value, realtime, sender), lines 143-149:
\* nothing happens for a name get() does not find.
PluginSetName(name, v, realtime, sender) ==
    /\ PluginGet(name) # NULL
    /\ PluginSet(PluginGet(name), v, realtime, sender)

\* asyncDispatcherCallback, line 41: while(!dispatcher->isKilled()); leaving
\* the loop returns from the thread function.
PluginWorkerLoop ==
    /\ wpc \in {"start", "loop"}
    /\ wpc' = IF killed THEN "done" ELSE "wait"
    /\ UNCHANGED <<pluginVars, callVars, gen, life, killed, mutex, woken,
                   rtpc, queueVars, rtBatch, asyncBatch, value, seen,
                   historyVars>>

\* Line 42: wait() blocks.
PluginWorkerWait ==
    /\ wpc = "wait"
    /\ wpc' = "waiting"
    /\ woken' = FALSE
    /\ UNCHANGED <<pluginVars, callVars, gen, life, killed, mutex, rtpc,
                   queueVars, rtBatch, asyncBatch, value, seen, historyVars>>

\* Lines 42-43: wait() returns to the woken worker, which calls process().
PluginWorkerWake ==
    /\ wpc = "waiting"
    /\ woken
    /\ woken' = FALSE
    /\ wpc' = "process"
    /\ UNCHANGED <<pluginVars, callVars, gen, life, killed, mutex, rtpc,
                   queueVars, rtBatch, asyncBatch, value, seen, historyVars>>

\* process() on the async dispatcher, one record: notify the async
\* observers except the sender and delete the record.
PluginWorkerNotify ==
    /\ wpc = "drain"
    /\ asyncBatch # <<>>
    /\ LET event == Head(asyncBatch)
           told == Notified(event, FALSE)
       IN  /\ obsLog' = [o \in Observers |->
                          IF o \in told THEN Append(obsLog[o], event.id)
                                        ELSE obsLog[o]]
           /\ asyncLog' = Append(asyncLog, event.id)
    /\ asyncBatch' = Tail(asyncBatch)
    /\ UNCHANGED <<pluginVars, callVars, gen, life, dispatcherVars, rtpc,
                   queueVars, rtBatch, value, seen, order, appliedLog,
                   appliedAt, notifies, batchStart>>

\* The steps PluginParameterSet's worker takes on its own.
PluginWorker ==
    \/ PluginWorkerLoop
    \/ PluginWorkerWait
    \/ PluginWorkerWake
    \/ WorkerProcess
    \/ PluginWorkerNotify
    \/ WorkerProcessDone

\* ~PluginParameterSet is entered, line 66.
PluginDestructorEnter ==
    /\ life = "alive"
    /\ life' = "joining"
    /\ UNCHANGED <<pluginVars, callVars, gen, dispatcherVars, rtpc, queueVars,
                   rtBatch, asyncBatch, value, seen, historyVars>>

\* Line 67: asyncDispatcherThread.join() returns.  The thread was detached
\* at line 62: the call returns when the thread function has returned, or
\* without waiting for a thread that is no longer joinable.
PluginDestructorJoin ==
    /\ life = "joining"
    /\ \E waits \in BOOLEAN : waits => Joined
    /\ life' = "deleting"
    /\ UNCHANGED <<pluginVars, callVars, gen, dispatcherVars, rtpc, queueVars,
                   rtBatch, asyncBatch, value, seen, historyVars>>

\* Lines 69-73: delete every parameter of the list, then the members (the
\* thread, the dispatchers with their queues, the list and the map) are
\* destroyed.
PluginDestructorDelete ==
    /\ life = "deleting"
    /\ freed' = Deleted(plist)
    /\ life' = "destroyed"
    /\ rtQueue' = <<>>
    /\ asyncQueue' = <<>>
    /\ UNCHANGED <<plist, parameterMap, returned, callVars, gen,
                   dispatcherVars, rtpc, notifyOwed, rtBatch, asyncBatch,
                   value, seen, historyVars>>

\* The steps of one PluginParameterSet between its construction and the
\* entry of its destructor.
PluginUseNext ==
    \/ \E o \in Objects \cup {NULL} : Add(o)
    \/ Clear
    \/ \E o \in Objects, r \in BOOLEAN : PluginSet(o, 1, r, NULL)
    \/ \E n \in LookupNames, r \in BOOLEAN : PluginSetName(n, 1, r, NULL)
    \/ PluginWorker
    \/ SpuriousWake

\* The steps of one PluginParameterSet, its destruction included.
PluginNext ==
    \/ PluginUseNext
    \/ PluginDestructorEnter
    \/ PluginDestructorJoin
    \/ PluginDestructorDelete

PluginSpec == Init /\ [][PluginNext]_vars

\* One PluginParameterSet in use, under the scheduling its worker thread
\* gets: the worker keeps running; a condition variable need not wake its
\* waiter without a signal.
PluginFairSpec ==
    /\ Init
    /\ [][PluginUseNext]_vars
    /\ WF_vars(PluginWorker)

----------------------------------------------------------------------------
(* Properties                                                              *)

\* Number of positions of seq that hold x.
Count(seq, x) == Cardinality({i \in DOMAIN seq : seq[i] = x})

\* Number of records of a queue that carry the id.
CountId(queue, id) == Cardinality({i \in DOMAIN queue : queue[i].id = id})

Max(S) == CHOOSE x \in S : \A y \in S : y <= x

\* The value a parameter has after the calls of `order`, made one after the
\* other on the parameter itself.
SyncValue(p) ==
    LET calls == {i \in DOMAIN order : order[i].parameter = p}
    IN  IF calls = {} THEN InitialValue[p] ELSE order[Max(calls)].value

\* C1: while kill has not been requested, every record a setter enqueued is
\* either still waiting on the real-time side or has been applied exactly
\* once, and every applied record is either still waiting on the async side
\* or has been handled by the worker exactly once; nothing is applied or
\* handled twice, nothing leaves a queue unhandled.
ExactlyOnceDelivery ==
    ~killed =>
        \A id \in DOMAIN order :
            /\ CountId(rtQueue, id) + CountId(rtBatch, id)
                   + Count(appliedLog, id) = 1
            /\ CountId(asyncQueue, id) + CountId(asyncBatch, id)
                   + Count(asyncLog, id) = Count(appliedLog, id)

\* C1 witness: two records went through both dispatchers, applied by two
\* different real-time drain calls.
ExactlyOnceDeliveryWitness ==
    /\ ~killed
    /\ Len(order) = 2
    /\ appliedLog = <<1, 2>>
    /\ appliedAt = <<1, 2>>
    /\ asyncLog = <<1, 2>>

\* C2: each dispatcher applies its records in the order they were enqueued,
\* whatever the split over drain calls, and once the real-time queue is
\* drained every parameter has the value that the same calls give when made
\* synchronously in the same order.
FifoPreservation ==
    /\ \A i \in DOMAIN appliedLog : appliedLog[i] = i
    /\ Len(asyncLog) <= Len(appliedLog)
    /\ \A i \in DOMAIN asyncLog : asyncLog[i] = appliedLog[i]
    /\ (life # "destroyed" /\ rtQueue = <<>> /\ rtBatch = <<>>)
           => \A p \in Params : value[p] = SyncValue(p)

\* C2 witness: two calls with different values on one parameter, applied by
\* two different drain calls.
FifoPreservationWitness ==
    /\ Len(order) = 2
    /\ order[1].parameter = order[2].parameter
    /\ order[1].value = 1
    /\ order[2].value = 0
    /\ appliedLog = <<1, 2>>
    /\ appliedAt[1] # appliedAt[2]
    /\ rtpc = "idle"

\* C3: the sender of a call is never notified of that call's change, by
\* either dispatcher; every other observer has been notified of it exactly
\* once as soon as the dispatcher of its priority has handled the record.
SenderExclusion ==
    \A id \in DOMAIN order :
        \A o \in Observers :
            IF o = order[id].sender
            THEN Count(obsLog[o], id) = 0
            ELSE Count(obsLog[o], id) =
                     Count(IF isRealtimePriority(o) THEN appliedLog
                                                    ELSE asyncLog, id)

\* C3 witness: testThreadsafeSetParameterWithSender: the async observer sent
\* the change, both dispatchers have handled it, the real-time observer was
\* notified.
SenderExclusionWitness ==
    /\ Len(order) = 1
    /\ order[1].sender = "asyncObserver"
    /\ asyncLog = <<1>>
    /\ obsLog["realtimeObserver"] = <<1>>
    /\ obsLog["asyncObserver"] = <<>>

\* C4: after a single set(p, v) without sender, no observer is notified
\* more than once, however many drains and wake-ups follow; each is
\* notified exactly once as soon as the dispatcher of its priority has
\* handled the record, and reads v.
ExactlyOnceNotification ==
    (Len(order) = 1 /\ order[1].sender = NULL) =>
        \A o \in Observers :
            LET handled == IF isRealtimePriority(o) THEN appliedLog
                                                    ELSE asyncLog
            IN  /\ Len(obsLog[o]) <= 1
                /\ handled = <<1>> =>
                       (obsLog[o] = <<1>> /\ seen[o] = order[1].value)

\* C4 witness: both observers were notified of set(p, true), and the worker
\* has woken up again and is about to drain again.
ExactlyOnceNotificationWitness ==
    /\ Len(order) = 1
    /\ order[1].sender = NULL
    /\ order[1].value = 1
    /\ \A o \in Observers : obsLog[o] = <<1>> /\ seen[o] = 1
    /\ wpc = "process"
    /\ rtpc = "drain"

\* C5: when processRealtimeEvents() has returned, every parameter whose last
\* set() call returned before that processRealtimeEvents() call began has
\* the value of that call, whatever the worker is doing.
SynchronousRealtimeApplication ==
    rtpc = "idle" =>
        \A p \in Params :
            LET calls == {i \in DOMAIN order : order[i].parameter = p}
            IN  (calls # {} /\ Max(calls) <= batchStart)
                    => value[p] = order[Max(calls)].value

\* C5 witness: testThreadsafeSetParameterRealtime with a worker thread that
\* has not run at all: set(p, true), one processRealtimeEvents(), p is true.
SynchronousRealtimeApplicationWitness ==
    /\ rtpc = "idle"
    /\ wpc = "start"
    /\ Len(order) = 1
    /\ order[1].value = 1
    /\ batchStart = 1
    /\ value[order[1].parameter] = 1

\* C6: if kill is never requested, every record on the async dispatcher's
\* queue is eventually handled by the worker, wherever the worker was when
\* the record was added and signalled.
NoMissedWakeup ==
    ([]~killed) =>
        \A id \in 1..MaxEvents :
            (CountId(asyncQueue, id) > 0) ~> (Count(asyncLog, id) > 0)

NoDrainAfterKill ==
    [][/\ (wpc' = "process" /\ wpc # "process") => (wpc = "check" /\ ~killed)
       /\ (wpc = "check" /\ killed) => wpc' \in {"check", "loop"}
       /\ (wpc = "loop" /\ killed) => wpc' \in {"loop", "done"}]_vars

\* C9 witness: the worker has returned from wait() and the kill flag is set.
NoDrainAfterKillWitness ==
    /\ wpc = "check"
    /\ killed
    /\ asyncQueue # <<>>

\* C10: the real-time queue holds real-time-flagged records only and the
\* async queue the others, no record sits twice on a queue, and notify()
\* has been called once for every record added to the async queue, after
\* the add, and never for a record added to the real-time queue.
Routing ==
    life # "destroyed" =>
        /\ \A i \in DOMAIN rtQueue : rtQueue[i].isRealtime
        /\ \A i \in DOMAIN rtBatch : rtBatch[i].isRealtime
        /\ \A i \in DOMAIN asyncQueue : ~asyncQueue[i].isRealtime
        /\ \A i \in DOMAIN asyncBatch : ~asyncBatch[i].isRealtime
        /\ \A id \in DOMAIN order :
               /\ CountId(rtQueue, id) + CountId(rtBatch, id) <= 1
               /\ CountId(asyncQueue, id) + CountId(asyncBatch, id) <= 1
        /\ notifies + notifyOwed["producer"] + notifyOwed["realtime"]
               = Len(asyncQueue) + Len(asyncBatch) + Len(asyncLog)
        /\ notifyOwed["producer"] = 0

\* C10 witness: one record on each queue, the async one added and not yet
\* signalled.
RoutingWitness ==
    /\ Len(rtQueue) = 1
    /\ Len(asyncQueue) = 1
    /\ notifyOwed["realtime"] = 1
    /\ notifies = 0

\* C11: when two producer threads call set() on the same parameter at the
\* same time, with the values 1 and 0, every record a returned call
\* scheduled is held exactly once by the real-time queue, the running drain
\* or the log of applied records; both are applied in the order they were
\* added; and once both are applied the parameter holds the value of the
\* record that was added later.
NoLostUpdate ==
    /\ Len(order) = Cardinality({t \in Producers : inflight[t].pc = "returned"})
    /\ \A id \in 1..Len(order) :
           CountId(rtQueue, id) + CountId(rtBatch, id)
               + Count(appliedLog, id) = 1
    /\ \A i \in 1..Len(appliedLog) : appliedLog[i] = i
    /\ Len(appliedLog) = Cardinality(Producers) =>
           value["test"] = order[Len(order)].value

\* Both producers were inside set() at the same time, the one that sets 1
\* added its record last, and both records are applied.
NoLostUpdateWitness ==
    /\ \A t \in Producers : inflight[t].overlapped
    /\ Len(appliedLog) = Cardinality(Producers)
    /\ order[Len(order)].value = ProducerValue["p1"]
    /\ value["test"] = ProducerValue["p1"]

\* Steps the running processRealtimeEvents() call still has to take: an
\* apply and a notify for every record it holds, and the notify it owes.
RealtimeWork == 2 * Len(rtBatch) + notifyOwed["realtime"]

\* C12: the real-time thread and the producers never wait for the worker.
\* In every state, whatever the worker does and whoever holds the async
\* dispatcher's mutex, a producer inside set() can take its next step, a
\* processRealtimeEvents() call can start, and a running one can take its
\* next step; the running call starts with two steps per record taken from
\* the queue, no step of any thread adds to them, and it returns when none
\* is left.
NeverWaitsOnWorker ==
    /\ [](/\ \A t \in Producers :
               /\ inflight[t].pc = "idle" => ENABLED SetEnter(t)
               /\ inflight[t].pc = "called" => ENABLED SetSchedule(t)
          /\ rtpc = "idle" => ENABLED ProcessRealtimeEvents
          /\ rtpc = "drain" =>
               ENABLED (RealtimeApply \/ RealtimeReturn
                           \/ ScheduleNotify("realtime")))
    /\ [][/\ (rtpc = "idle" /\ rtpc' = "drain") =>
               RealtimeWork' = 2 * Len(rtQueue)
          /\ (rtpc = "drain" /\ rtpc' = "drain") =>
               RealtimeWork' \in {RealtimeWork, RealtimeWork - 1}
          /\ (rtpc = "drain" /\ rtpc' = "idle") => RealtimeWork = 0]_vars

\* The worker is in the middle of process(), holding the mutex, with the
\* first record; the real-time thread is inside a drain that holds the
\* second record.
NeverWaitsOnWorkerWitness ==
    /\ mutex = "worker"
    /\ wpc = "drain"
    /\ asyncBatch # <<>>
    /\ rtpc = "drain"
    /\ rtBatch # <<>>

\* What a setter call that schedules nothing must leave alone: both queues,
\* the records the drains hold, every parameter's value and data, and what
\* the observers were told.
SetVisible == <<rtQueue, asyncQueue, rtBatch, asyncBatch, notifyOwed, value,
                data, seen, obsLog, order>>

\* Nothing was ever scheduled, applied or notified on the set.
Untouched ==
    /\ rtQueue = <<>> /\ asyncQueue = <<>>
    /\ rtBatch = <<>> /\ asyncBatch = <<>>
    /\ value = InitialValue
    /\ data = InitialData
    /\ \A o \in Observers : obsLog[o] = <<>>

\* A step is a setData call, through any overload, on a parameter that is
\* not a data parameter.
SetDataOnOther ==
    \E d \in DataArgs :
       \/ \E p \in Params : SetData(p, d[1], d[2], NULL)
       \/ \E p \in Params : SetDataName(p, d[1], d[2], NULL)
       \/ \E i \in 0..(size - 1) :
              at(i) \in Params /\ SetDataIndex(i, d[1], d[2], NULL)

\* C13: a setData call whose target is not a data parameter puts no record
\* on either queue and changes no value, no data and no observer; as long
\* as no other call scheduled a record, the set stays as constructed
\* through any number of drains of either dispatcher.
SetDataTypeSafety ==
    /\ [][SetDataOnOther => UNCHANGED SetVisible]_vars
    /\ []((unscheduled.why = "dynamic_cast = NULL" /\ order = <<>>)
              => Untouched)

\* setData was called on a parameter that is not a data parameter, a
\* real-time drain and a worker drain are running, and nothing was ever
\* scheduled.
SetDataTypeSafetyWitness ==
    /\ unscheduled = Unscheduled("setData", "dynamic_cast = NULL")
    /\ order = <<>>
    /\ rtpc = "drain"
    /\ wpc = "drain"

\* A step is a set, setScaled or setData call with a name that no parameter
\* of the set has.
UnknownNameCall ==
    \E n \in Names :
       /\ get(n) = NULL
       /\ \/ \E v \in Values : SetName(n, v, NULL)
          \/ \E v \in Values : SetScaledName(n, v, NULL)
          \/ \E d \in DataArgs : SetDataName(n, d[1], d[2], NULL)

\* C14: a set, setScaled or setData call that names a parameter the set
\* does not have puts no record on either queue and changes no value, no
\* data and no observer; as long as no other call scheduled a record, the
\* set stays as constructed through any number of drains.
UnknownNameDropped ==
    /\ [][UnknownNameCall => UNCHANGED SetVisible]_vars
    /\ []((unscheduled.why = "get(name) = NULL" /\ order = <<>>)
              => Untouched)

\* set was called with a name the set does not have, a real-time drain is
\* running, and nothing was ever scheduled.
UnknownNameDroppedWitness ==
    /\ unscheduled = Unscheduled("set", "get(name) = NULL")
    /\ order = <<>>
    /\ rtpc = "drain"

\* A step is a set, setScaled or setData call with an index outside the
\* list or with NULL for the Parameter pointer.
InvalidTargetCall ==
    \/ \E i \in Indexes \ (0..(size - 1)) :
          \/ \E v \in Values : SetIndex(i, v, NULL)
          \/ \E v \in Values : SetScaledIndex(i, v, NULL)
          \/ \E d \in DataArgs : SetDataIndex(i, d[1], d[2], NULL)
    \/ \E v \in Values : Set(NULL, v, NULL)
    \/ \E v \in Values : SetScaled(NULL, v, NULL)
    \/ \E d \in DataArgs : SetData(NULL, d[1], d[2], NULL)

\* C15: a set, setScaled or setData call with an index below 0 or not
\* below size(), or with a NULL Parameter pointer, returns normally without
\* throwing, puts no record on either queue, and the process never ends in
\* a drain because of it.
InvalidTargetDropped ==
    /\ [][InvalidTargetCall =>
             /\ UNCHANGED SetVisible
             /\ unscheduled'.why # "out_of_range"]_vars
    /\ [](life # "crashed")

\* setData arguments without a buffer or without a size.
EmptyArgs == {d \in DataArgs : d[1] = NULL \/ d[2] = 0}

\* A step is a setData call, through any overload, on a data parameter
\* with a NULL data pointer or a dataSize of 0.
EmptyDataCall ==
    \E p \in DataParams, d \in EmptyArgs :
       \/ SetData(p, d[1], d[2], NULL)
       \/ SetDataName(p, d[1], d[2], NULL)
       \/ \E i \in 0..(size - 1) :
              at(i) = p /\ SetDataIndex(i, d[1], d[2], NULL)

\* Every record scheduled so far came from a setData call without a buffer
\* or without a size.
OnlyEmptyData ==
    \A i \in 1..Len(order) :
       /\ order[i].op = "setData"
       /\ <<order[i].data, order[i].dataSize>> \in EmptyArgs

\* C16: a setData call on a data parameter with a NULL data pointer or a
\* dataSize of 0 puts no record on either queue; the stored data and size
\* do not change in any later drain; and no observer is notified.
EmptyDataDropped ==
    /\ [][EmptyDataCall => UNCHANGED SetVisible]_vars
    /\ [](OnlyEmptyData => data = InitialData)
    /\ [](OnlyEmptyData => \A o \in Observers : obsLog[o] = <<>>)

\* What a drain that finds its queue empty must leave alone: every
\* parameter's value and data, both queues, and what the observers were
\* told.
DrainVisible == <<value, data, rtQueue, asyncQueue, notifyOwed, seen, obsLog>>

\* C17: processRealtimeEvents() can be called whatever the real-time queue
\* holds; called on an empty queue it takes no record, changes no value, no
\* data, neither queue and no observer, and its return is its next step.
\* The same holds for the worker's process() after a wake-up that finds
\* the async queue empty.
EmptyDrainNoOp ==
    /\ []((life = "alive" /\ rtpc = "idle") => ENABLED ProcessRealtimeEvents)
    /\ []((rtpc = "drain" /\ rtBatch = <<>> /\ notifyOwed["realtime"] = 0)
              => ENABLED RealtimeReturn)
    /\ []((wpc = "drain" /\ asyncBatch = <<>>) => ENABLED WorkerProcessDone)
    /\ [][(rtQueue = <<>> /\ ProcessRealtimeEvents) =>
             (rtBatch' = <<>> /\ UNCHANGED DrainVisible)]_vars
    /\ [][RealtimeReturn => UNCHANGED DrainVisible]_vars
    /\ [][(asyncQueue = <<>> /\ WorkerProcess) =>
             (asyncBatch' = <<>> /\ UNCHANGED DrainVisible)]_vars
    /\ [][WorkerProcessDone => UNCHANGED DrainVisible]_vars

\* Nothing was ever scheduled; processRealtimeEvents() is inside a drain
\* that took nothing, and the worker, woken without a record, is inside a
\* process() that took nothing.
EmptyDrainNoOpWitness ==
    /\ order = <<>>
    /\ rtpc = "drain"
    /\ rtBatch = <<>>
    /\ wpc = "drain"
    /\ asyncBatch = <<>>
    /\ value = InitialValue
    /\ \A o \in Observers : obsLog[o] = <<>>

\* The ids of the records a queue or a drain holds.
Ids(queue) == {queue[i].id : i \in DOMAIN queue}

\* The ids in a log.
Logged(log) == {log[i] : i \in DOMAIN log}

\* C18: a drain handles exactly the records its queue held when it started.
\* A record applied by a real-time drain was scheduled before that drain
\* began; while a real-time drain runs, the records scheduled before it
\* began are applied or held by it and none of them is on the queue, and
\* the records scheduled since are on the queue and not held by it.  On
\* both dispatchers a record still on the queue was scheduled after every
\* record a drain has taken.
SinglePassDrain ==
    /\ \A i \in DOMAIN appliedLog : appliedLog[i] <= appliedAt[i]
    /\ rtpc = "drain" =>
          /\ Ids(rtBatch) \cup Logged(appliedLog) = 1..batchStart
          /\ Ids(rtQueue) = (batchStart + 1)..Len(order)
    /\ \A q \in Ids(rtQueue) :
          \A b \in Ids(rtBatch) \cup Logged(appliedLog) : b < q
    /\ \A q \in Ids(asyncQueue) :
          \A b \in Ids(asyncBatch) \cup Logged(asyncLog) : b < q

\* A real-time drain has applied the first record; the second was scheduled
\* while the drain was running and waits on the queue for the next drain.
SinglePassDrainWitness ==
    /\ rtpc = "drain"
    /\ batchStart = 1
    /\ appliedLog = <<1>>
    /\ appliedAt = <<1>>
    /\ rtBatch = <<>>
    /\ Ids(rtQueue) = {2}

\* The value of parameter p after the records applied so far: that of the
\* last applied call on p, the initial value if there is none.
AppliedValue(p) ==
    LET calls == {i \in DOMAIN appliedLog : order[appliedLog[i]].parameter = p}
    IN  IF calls = {} THEN InitialValue[p]
        ELSE order[appliedLog[Max(calls)]].value

\* C19: a parameter's value is that of the last record a real-time drain
\* applied to it, so a set() call stores nothing before its record is
\* drained; a record reaches the async dispatcher, and the async observer
\* is notified of it, only after a real-time drain applied it; and the async
\* observer is not notified of a record before the real-time observer is,
\* unless the real-time observer is the sender.
ApplyBeforeAsyncNotify ==
    /\ \A p \in Params : value[p] = AppliedValue(p)
    /\ Ids(asyncQueue) \cup Ids(asyncBatch) \subseteq Logged(appliedLog)
    /\ Logged(asyncLog) \subseteq Logged(appliedLog)
    /\ \A id \in Logged(obsLog["asyncObserver"]) :
          /\ id \in Logged(appliedLog)
          /\ \/ id \in Logged(obsLog["realtimeObserver"])
             \/ order[id].sender = "realtimeObserver"

\* Both records are applied and the real-time observer was notified of
\* both; the async observer has been notified of the first only, after the
\* second was applied, and the second still waits on the async queue.
ApplyBeforeAsyncNotifyWitness ==
    /\ appliedLog = <<1, 2>>
    /\ obsLog["realtimeObserver"] = <<1, 2>>
    /\ obsLog["asyncObserver"] = <<1>>
    /\ Ids(asyncQueue) = {2}
    /\ order[1].value # order[2].value
    /\ seen["asyncObserver"] = order[2].value

\* How many of the two queues and two running drains hold the record id.
Holders(id) ==
    CountId(rtQueue, id) + CountId(rtBatch, id)
        + CountId(asyncQueue, id) + CountId(asyncBatch, id)

\* C20: a record is held by one queue or one drain at a time, so no two
\* threads apply it; and every step that changes a parameter's value or
\* data is the real-time drain applying the record at the head of what it
\* took: in that step no set() call is made or returns and the worker does
\* not move.
NoConcurrentMutation ==
    /\ [](\A id \in 1..Len(order) : Holders(id) <= 1)
    /\ [][(value' # value \/ data' # data) =>
             /\ rtpc = "drain"
             /\ rtBatch # <<>>
             /\ value' = ApplyValue(Head(rtBatch))
             /\ appliedLog' = Append(appliedLog, Head(rtBatch).id)
             /\ UNCHANGED <<order, inflight, wpc, asyncBatch, asyncLog>>]_vars

\* The real-time drain has applied the first record and holds the second,
\* on the same parameter, while the worker's drain holds the first; the
\* parameter has the value the real-time drain wrote.
NoConcurrentMutationWitness ==
    /\ rtpc = "drain"
    /\ Ids(rtBatch) = {2}
    /\ wpc = "drain"
    /\ Ids(asyncBatch) = {1}
    /\ Head(rtBatch).parameter = Head(asyncBatch).parameter
    /\ appliedLog = <<1>>
    /\ value["test"] = order[1].value
    /\ value["test"] # InitialValue["test"]

----------------------------------------------------------------------------
(* PluginParameterSet: properties                                          *)

\* The parameters of the list that have the same safe name as o.
SameSafeName(o) ==
    {i \in DOMAIN plist : getSafeName(plist[i]) = getSafeName(o)}

\* The parameters of the list that have the same name as o.
SameName(o) ==
    {i \in DOMAIN plist : getName(plist[i]) = getName(o)}

\* An add() call that returned NULL and changed neither size(), nor the
\* index order, nor any lookup by name.
Rejected(o) ==
    /\ returned' = Added(o, NULL)
    /\ PluginSize' = PluginSize
    /\ plist' = plist
    /\ \A n \in LookupNames : PluginGet(n)' = PluginGet(n)

\* An add() call that returned its argument, put it at index size() - 1
\* behind the entries there were, and made get(its name) return it.
Accepted(o) ==
    /\ returned' = Added(o, o)
    /\ PluginSize' = PluginSize + 1
    /\ plist'[Len(plist')] = o
    /\ SubSeq(plist', 1, PluginSize) = plist
    /\ PluginGet(getName(o))' = o

\* C21 as stated: add() rejects NULL and a parameter whose name is already
\* in the set, leaving size(), order and lookups unchanged; every other
\* add(p) returns p, grows the set by one, puts p last and makes get(p's
\* name) return p.
AddRejectsDuplicateName ==
    [][\A o \in Objects \cup {NULL} :
          Add(o) => IF o = NULL \/ SameName(o) # {}
                    THEN Rejected(o)
                    ELSE Accepted(o)]_vars

\* C21 amended: add() rejects NULL and a parameter whose safe name is that
\* of a parameter already in the set, leaving size(), order and lookups
\* unchanged; every other add(p) returns p, grows the set by one, puts p
\* last and makes get(p's name) return p.
AddRejectsDuplicateSafeName ==
    [][\A o \in Objects \cup {NULL} :
          Add(o) => IF o = NULL \/ SameSafeName(o) # {}
                    THEN Rejected(o)
                    ELSE Accepted(o)]_vars

\* A parameter was rejected for the safe name it shares with a parameter of
\* another name, after two parameters were accepted.
AddRejectsDuplicateSafeNameWitness ==
    /\ PluginSize = 2
    /\ returned.parameter # NULL
    /\ returned.result = NULL
    /\ SameSafeName(returned.parameter) # {}
    /\ SameName(returned.parameter) = {}

\* The parameters held by the list and by the map.
Listed == {plist[i] : i \in DOMAIN plist}
Mapped == {parameterMap[k] : k \in DOMAIN parameterMap}

\* C27: after any sequence of add and clear calls the list and the map hold
\* the same parameters, size() is the number of safe names stored, no two
\* entries share a safe name, every parameter reachable by index is what
\* get(its name) returns, and a clear() leaves size() 0 and get(name) NULL
\* for every name.
IndexNameConsistency ==
    /\ [](/\ Listed = Mapped
          /\ PluginSize = Cardinality(DOMAIN parameterMap)
          /\ \A i, j \in DOMAIN plist :
                getSafeName(plist[i]) = getSafeName(plist[j]) => i = j
          /\ \A k \in DOMAIN parameterMap :
                getSafeName(parameterMap[k]) = k
          /\ \A index \in 0 .. PluginSize - 1 :
                PluginGet(getName(PluginAt(index))) = PluginAt(index))
    /\ [][Clear => /\ PluginSize' = 0
                   /\ \A n \in LookupNames : PluginGet(n)' = NULL]_vars

\* Two parameters are in the set again after a clear() that deleted one
\* with the safe name of one of them.
IndexNameConsistencyWitness ==
    /\ PluginSize = 2
    /\ \E o \in Objects :
          /\ freed[o] > 0
          /\ \E i \in DOMAIN plist :
                plist[i] # o /\ getSafeName(plist[i]) = getSafeName(o)

\* C22: destroying a PluginParameterSet frees none of its parameters: a
\* parameter is deleted only by a clear() call, and never twice.
DestructorKeepsParameters ==
    /\ [](\A o \in Objects : freed[o] <= 1)
    /\ [][freed' # freed => Clear]_vars

\* C23: the destructor requests kill on the async dispatcher before it
\* joins, and the worker has returned before any parameter, dispatcher or
\* queue is released.
PluginTeardownSafety ==
    /\ life \in {"joining", "deleting", "destroyed"} => killed
    /\ life \in {"deleting", "destroyed"} => Joined

\* C25: PluginParameterSet's worker calls process() only from a test of
\* the kill flag that follows the return of wait() and finds it clear.
PluginNoDrainAfterKill ==
    [][wpc # "process" /\ wpc' = "process" => wpc = "check" /\ ~killed]_vars

\* C26: every record scheduleEvent() puts on the async dispatcher is
\* eventually processed by the worker, without a further call on the set.
AsyncRecordProcessed ==
    \A id \in 1 .. MaxCalls :
        (id \in Ids(asyncQueue)) ~> (id \in Logged(asyncLog))

----------------------------------------------------------------------------
(* ConcurrentParameterSet: the setters and the real-time drain             *)

\* The parameters and the observers are as they were constructed: no value
\* or data was changed,
\* no observer was told anything and the async dispatcher was handed
\* nothing.
NothingApplied ==
    /\ value = InitialValue
    /\ data = InitialData
    /\ \A o \in Observers : obsLog[o] = <<>> /\ seen[o] = 0
    /\ asyncQueue = <<>> /\ asyncBatch = <<>> /\ asyncLog = <<>>

\* C24: every setter that schedules a record puts it, flagged real-time, on
\* the real-time dispatcher and leaves the async dispatcher, the values, the
\* data and the observers alone; values, data and observers change only in
\* a step of a drain; and as long as no real-time drain has taken a record
\* (batchStart = 0) nothing is applied or notified, whatever the worker
\* does.
SettersAreRealtime ==
    /\ [][order' # order =>
            /\ rtQueue' = Append(rtQueue, rtQueue'[Len(rtQueue')])
            /\ rtQueue'[Len(rtQueue')].isRealtime
            /\ rtQueue'[Len(rtQueue')].id = Len(order')
            /\ UNCHANGED <<asyncQueue, asyncBatch, value, data, seen,
                           obsLog>>]_vars
    /\ [][value' # value \/ data' # data \/ seen' # seen \/ obsLog' # obsLog
            => \/ rtBatch # <<>> /\ rtBatch' = Tail(rtBatch)
               \/ asyncBatch # <<>> /\ asyncBatch' = Tail(asyncBatch)]_vars
    /\ [](batchStart = 0 => rtBatch = <<>> /\ NothingApplied)

\* A setScaled call was made, no real-time drain has taken its record, and
\* the worker is inside process() after a wake-up.
SettersAreRealtimeWitness ==
    /\ Len(order) = 1
    /\ order[1].op = "setScaled"
    /\ order[1].parameter \in Params
    /\ Ids(rtQueue) = {1}
    /\ batchStart = 0
    /\ wpc = "drain"
    /\ NothingApplied

====
